---- MODULE Spec2Model ----
(***************************************************************************)
(* The two route handlers of the authentication surface:                   *)
(*   POST /api/auth/change-password   (change-password/route.ts)           *)
(*   POST /api/auth/social/connect    (social/connect/route.ts)            *)
(* Each handler is a sequence of awaited calls to external collaborators.  *)
(* One action models one awaited call together with the synchronous code   *)
(* that follows it up to the next await or the response.                   *)
(***************************************************************************)
EXTENDS Naturals, Sequences, FiniteSets

\* ------------------------------------------------------------ bounds
\* Longest list of enrolled 2FA factors / basic verification methods the
\* verification-method lookup answers with.
MaxFactors == 2

\* ------------------------------------------------------------ values
Undefined == "<undefined>"

Requests == {"r1", "r2"}

ChangePassword == "change-password"
SocialConnect == "social/connect"
Routes == {ChangePassword, SocialConnect}

\* Passwords that satisfy the password rules, and one that does not.
Passwords == {"pw1", "pw2"}
WeakPassword == "weak"

Providers == {"github"}
UnknownProvider == "myspace"

FactorPool ==
    { [type |-> "totp", factorId |-> "factor-totp"],
      [type |-> "sms", factorId |-> "factor-sms"] }
BasicMethods == {"password", "email"}

RECURSIVE SeqsUpTo(_, _)
SeqsUpTo(S, n) ==
    IF n = 0 THEN {<<>>}
    ELSE LET shorter == SeqsUpTo(S, n - 1)
         IN  shorter \cup
             {Append(s, x) : s \in {t \in shorter : Len(t) = n - 1}, x \in S}

\* The request: the route it is sent to, the device-session cookie and the
\* body. A body that is not JSON has parsable = FALSE.
CPBodies ==
    [parsable : {TRUE},
     currentPassword : {Undefined, ""} \cup Passwords,
     newPassword : {Undefined, WeakPassword} \cup Passwords,
     provider : {Undefined}]
SCBodies ==
    [parsable : {TRUE},
     currentPassword : {Undefined},
     newPassword : {Undefined},
     provider : {Undefined, UnknownProvider} \cup Providers]
UnparsableBody ==
    [parsable |-> FALSE, currentPassword |-> Undefined,
     newPassword |-> Undefined, provider |-> Undefined]
NoRequest ==
    [route |-> Undefined, deviceSessionId |-> Undefined, body |-> UnparsableBody]
RequestsTo(route) ==
    [route : {route},
     deviceSessionId : {Undefined, "ds1"},
     body : (IF route = ChangePassword THEN CPBodies ELSE SCBodies)
            \cup {UnparsableBody}]

\* AUTH_CONFIG.emailAlerts, the two sections the handlers read.
AuthConfigs ==
    [password : [enabled : BOOLEAN, alertOnChange : BOOLEAN],
     socialProviders : [enabled : BOOLEAN, alertOnConnect : BOOLEAN]]

VARIABLES
    \* the backend, owned by the external services
    password,            \* the account's password (Undefined: none set)
    has_password,        \* users.has_password of the caller's row
    gracePeriodExpired,  \* whether the device session's grace period is over
    account_events,      \* the account event log, in order of insertion
    \* module-level configuration
    authRateLimit,       \* whether a rate limiter is configured
    AUTH_CONFIG,
    \* one record per request being handled
    pc,                  \* where the handler is
    request,
    locals,              \* the handler's local bindings
    calls,               \* the external calls made so far, with their results
    response

vars == <<password, has_password, gracePeriodExpired, account_events,
          authRateLimit, AUTH_CONFIG, pc, request, locals, calls, response>>

backend == <<password, has_password, gracePeriodExpired, account_events>>
config == <<authRateLimit, AUTH_CONFIG>>

NoResponse == [status |-> 0, body |-> <<>>]

NoLocals ==
    [user |-> Undefined, dbHasPassword |-> FALSE, newPassword |-> Undefined,
     currentPassword |-> Undefined, provider |-> Undefined,
     deviceSessionId |-> Undefined, gracePeriodExpired |-> FALSE,
     has2FA |-> FALSE, factors |-> <<>>]

\* ------------------------------------------------------------ helpers
\* Mutant: the missing-value checks are dropped.
Truthy_Always(v) == TRUE

\* JavaScript truthiness of an optional string.
Truthy(v) == v \notin {Undefined, ""}

Call(fn, arg, result) == [fn |-> fn, arg |-> arg, result |-> result]

Called(r, fn, arg, result) ==
    calls' = [calls EXCEPT ![r] = Append(@, Call(fn, arg, result))]

\* NextResponse.json(body, {status}); the status defaults to 200.
Json(body, status) == [status |-> status, body |-> body]
ErrorJson(message, status) == Json([error |-> message], status)

Respond(r, resp) ==
    /\ response' = [response EXCEPT ![r] = resp]
    /\ pc' = [pc EXCEPT ![r] = "done"]

Goto(r, label) ==
    /\ pc' = [pc EXCEPT ![r] = label]
    /\ UNCHANGED response

Bind(r, loc) == locals' = [locals EXCEPT ![r] = loc]

\* The catch block of either handler.
UnexpectedError == ErrorJson("An unexpected error occurred", 500)

\* What an awaited collaborator can do when its answer carries no data.
Outcomes == {"ok", "error", "throw"}

\* ------------------------------------------------- collaborators
\* The validation schemas: the password change body is
\* {currentPassword?, newPassword}, the add-password body {newPassword},
\* the connect body {provider}. safeParse keeps the fields of the schema.
ValidPassword(p) == p \in Passwords

SafeParse(schema, body) ==
    CASE schema = "passwordChangeSchema" ->
           [success |-> ValidPassword(body.newPassword),
            message |-> "Invalid password",
            data |-> [currentPassword |-> body.currentPassword,
                      newPassword |-> body.newPassword]]
      [] schema = "addPasswordSchema" ->
           [success |-> ValidPassword(body.newPassword),
            message |-> "Invalid password",
            data |-> [currentPassword |-> Undefined,
                      newPassword |-> body.newPassword]]
      [] schema = "socialProviderSchema" ->
           [success |-> body.provider \in Providers,
            message |-> "Invalid provider",
            data |-> [provider |-> body.provider]]

\* The device-session cookie of the request.
getDeviceSessionId(req) == req.deviceSessionId

\* getUserVerificationMethods: the enrolled 2FA factors, whether there are
\* any, and the basic methods offered to a user without 2FA.
VerificationMethods ==
    { [has2FA |-> Len(f) > 0, factors |-> f, methods |-> m] :
        f \in SeqsUpTo(FactorPool, MaxFactors),
        m \in SeqsUpTo(BasicMethods, MaxFactors) }

\* auth.signInWithPassword answers no error only for the account's password.
SignInResults(currentPassword) ==
    {"error", "throw"} \cup (IF currentPassword = password THEN {"ok"} ELSE {})

UpdateUserResults == {"ok", "error:identity_not_found", "error:other", "throw"}

\* ------------------------------------------------------------ Init
Init ==
    /\ password \in Passwords \cup {Undefined}
    /\ has_password \in BOOLEAN
    /\ has_password => password # Undefined
    /\ gracePeriodExpired \in BOOLEAN
    /\ account_events = <<>>
    /\ authRateLimit \in BOOLEAN
    /\ AUTH_CONFIG \in AuthConfigs
    /\ pc = [r \in Requests |-> IF r = "r1" THEN "idle" ELSE "absent"]
    /\ request = [r \in Requests |-> NoRequest]
    /\ locals = [r \in Requests |-> NoLocals]
    /\ calls = [r \in Requests |-> <<>>]
    /\ response = [r \in Requests |-> NoResponse]

\* A request arrives at one of the two routes.
Receive(r) ==
    /\ pc[r] = "idle"
    /\ \E route \in Routes :
         \E req \in RequestsTo(route) :
            /\ request' = [request EXCEPT ![r] = req]
            /\ pc' = [pc EXCEPT ![r] =
                        IF route = ChangePassword THEN "cp_rate_limit"
                        ELSE "sc_rate_limit"]
    /\ UNCHANGED <<backend, config, locals, calls, response>>

\* Time passes: the grace period of the device session runs out.
GracePeriodElapses ==
    /\ ~gracePeriodExpired
    /\ gracePeriodExpired' = TRUE
    /\ UNCHANGED <<password, has_password, account_events, config,
                   pc, request, locals, calls, response>>

\* ---------------------------------------------- change-password POST
\* Rate limiting: only when a limiter is configured.
CP_RateLimit(r) ==
    /\ pc[r] = "cp_rate_limit"
    /\ IF ~authRateLimit
       THEN Goto(r, "cp_get_user") /\ UNCHANGED calls
       ELSE \E outcome \in {"success", "limited", "throw"} :
              /\ Called(r, "authRateLimit.limit", "ip", outcome)
              /\ CASE outcome = "success" -> Goto(r, "cp_get_user")
                   [] outcome = "limited" ->
                        Respond(r, ErrorJson(
                            "Too many requests. Please try again later.", 429))
                   [] outcome = "throw" -> Respond(r, UnexpectedError)
    /\ UNCHANGED <<backend, config, request, locals>>

\* getUser: error || !user answers 401.
CP_GetUser(r) ==
    /\ pc[r] = "cp_get_user"
    /\ \E outcome \in {"user", "error", "throw"} :
         /\ Called(r, "getUser", "", outcome)
         /\ CASE outcome = "user" ->
                   /\ Goto(r, "cp_read_user")
                   /\ Bind(r, [locals[r] EXCEPT !.user = "user1"])
              [] outcome = "error" ->
                   /\ Respond(r, ErrorJson("Unauthorized", 401))
                   /\ UNCHANGED locals
              [] outcome = "throw" ->
                   /\ Respond(r, UnexpectedError)
                   /\ UNCHANGED locals
    /\ UNCHANGED <<backend, config, request>>

\* The users row: select has_password.
CP_ReadUser(r) ==
    /\ pc[r] = "cp_read_user"
    /\ \E outcome \in Outcomes :
         /\ Called(r, "users.select", "has_password", outcome)
         /\ CASE outcome = "ok" ->
                   /\ Goto(r, "cp_body")
                   /\ Bind(r, [locals[r] EXCEPT !.dbHasPassword = has_password])
              [] outcome = "error" ->
                   /\ Respond(r, ErrorJson("Failed to get user data", 500))
                   /\ UNCHANGED locals
              [] outcome = "throw" ->
                   /\ Respond(r, UnexpectedError)
                   /\ UNCHANGED locals
    /\ UNCHANGED <<backend, config, request>>

\* The schema the body is validated against.
CP_Schema(dbHasPassword) ==
    IF dbHasPassword THEN "passwordChangeSchema" ELSE "addPasswordSchema"

\* Whether the current password is verified before anything else.
CP_VerifiesCurrentPassword(dbHasPassword) == dbHasPassword

\* The status answered when the request carries no device session.
CP_NoDeviceSessionStatus == 400

\* Mutant: the grace-period check is skipped.
CP_AfterDeviceSession_SkipGrace == "cp_update_user"

\* Where the handler goes once it holds a device session id.
CP_AfterDeviceSession == "cp_grace"

\* Get the device session id from the cookie, then go on to the
\* grace-period check.
CP_DeviceSession(r, loc) ==
    LET deviceSessionId == getDeviceSessionId(request[r])
    IN  IF ~Truthy(deviceSessionId)
        THEN /\ Respond(r, ErrorJson("No device session found",
                                     CP_NoDeviceSessionStatus))
             /\ Bind(r, loc)
        ELSE /\ Goto(r, CP_AfterDeviceSession)
             /\ Bind(r, [loc EXCEPT !.deviceSessionId = deviceSessionId])

\* request.json(), the validation of the body, and the check that a user
\* with a password sent the current one.
CP_ValidateBody(r) ==
    /\ pc[r] = "cp_body"
    /\ LET body == request[r].body
           dbHasPassword == locals[r].dbHasPassword
           validation == SafeParse(CP_Schema(dbHasPassword), body)
           newPassword == validation.data.newPassword
           currentPassword ==
               IF dbHasPassword THEN validation.data.currentPassword
               ELSE Undefined
           loc == [locals[r] EXCEPT !.newPassword = newPassword,
                                    !.currentPassword = currentPassword]
       IN  IF ~body.parsable
           THEN Respond(r, UnexpectedError) /\ UNCHANGED <<locals, calls>>
           ELSE
             /\ Called(r, "safeParse", CP_Schema(dbHasPassword),
                       IF validation.success THEN "ok" ELSE "error")
             /\ IF ~validation.success
                THEN Respond(r, ErrorJson(validation.message, 400))
                     /\ UNCHANGED locals
                ELSE IF CP_VerifiesCurrentPassword(dbHasPassword)
                THEN IF ~Truthy(currentPassword)
                     THEN Respond(r, ErrorJson("Current password is required",
                                               400))
                          /\ Bind(r, loc)
                     ELSE Goto(r, "cp_sign_in") /\ Bind(r, loc)
                ELSE CP_DeviceSession(r, loc)
    /\ UNCHANGED <<backend, config, request>>

\* Mutant: a sign-in error is ignored.
CP_SignInRejected_Never(result) == FALSE

\* Whether the answer of signInWithPassword rejects the request.
CP_SignInRejected(result) == result = "error"

\* Verify the current password.
CP_SignIn(r) ==
    /\ pc[r] = "cp_sign_in"
    /\ \E result \in SignInResults(locals[r].currentPassword) :
         /\ Called(r, "auth.signInWithPassword",
                   locals[r].currentPassword, result)
         /\ IF result = "throw"
            THEN Respond(r, UnexpectedError) /\ UNCHANGED locals
            ELSE IF CP_SignInRejected(result)
            THEN Respond(r, ErrorJson("Current password is incorrect", 400))
                 /\ UNCHANGED locals
            ELSE CP_DeviceSession(r, locals[r])
    /\ UNCHANGED <<backend, config, request>>

\* Mutant: verification is looked up whatever the grace period says.
CP_AfterGraceCheck_AlwaysVerify(expired) == "cp_methods"

\* Where the handler goes after the grace-period check.
CP_AfterGraceCheck(expired) ==
    IF expired THEN "cp_methods" ELSE "cp_update_user"

\* hasGracePeriodExpired of the device session.
CP_GraceCheck(r) ==
    /\ pc[r] = "cp_grace"
    /\ \E outcome \in {"answer", "throw"} :
         IF outcome = "throw"
         THEN /\ Called(r, "hasGracePeriodExpired",
                        locals[r].deviceSessionId, "throw")
              /\ Respond(r, UnexpectedError)
              /\ UNCHANGED locals
         ELSE /\ Called(r, "hasGracePeriodExpired", locals[r].deviceSessionId,
                        IF gracePeriodExpired THEN "true" ELSE "false")
              /\ Goto(r, CP_AfterGraceCheck(gracePeriodExpired))
              /\ Bind(r, [locals[r] EXCEPT
                            !.gracePeriodExpired = gracePeriodExpired])
    /\ UNCHANGED <<backend, config, request>>

\* Mutant: the challenge names the last factor instead of the first.
CP_TwoFactorChallenge_LastFactor(factors, newPassword) ==
    Json([requiresTwoFactor |-> TRUE,
          factorId |-> factors[Len(factors)].factorId,
          availableMethods |-> factors,
          newPassword |-> newPassword], 200)

\* The challenge answered to a user with 2FA.
CP_TwoFactorChallenge(factors, newPassword) ==
    Json([requiresTwoFactor |-> TRUE,
          factorId |-> factors[1].factorId,
          availableMethods |-> factors,
          newPassword |-> newPassword], 200)

\* Mutant: the 2FA challenge is never required.
CP_RequiresTwoFactor_Never(has2FA) == FALSE

\* Whether the request is answered with the 2FA challenge.
CP_RequiresTwoFactor(has2FA) == has2FA

\* getUserVerificationMethods after an expired grace period. Reading
\* factors[0].factorId of an empty list throws.
CP_VerificationMethods(r) ==
    /\ pc[r] = "cp_methods"
    /\ \E outcome \in {"answer", "throw"} :
         IF outcome = "throw"
         THEN /\ Called(r, "getUserVerificationMethods", "", "throw")
              /\ Respond(r, UnexpectedError)
              /\ UNCHANGED locals
         ELSE \E vm \in VerificationMethods :
              /\ Called(r, "getUserVerificationMethods", "",
                        IF vm.has2FA THEN "has2FA" ELSE "no2FA")
              /\ Bind(r, [locals[r] EXCEPT !.has2FA = vm.has2FA,
                                           !.factors = vm.factors])
              /\ IF CP_RequiresTwoFactor(vm.has2FA)
                 THEN IF Len(vm.factors) = 0
                      THEN Respond(r, UnexpectedError)
                      ELSE Respond(r, CP_TwoFactorChallenge(
                                          vm.factors, locals[r].newPassword))
                 ELSE Goto(r, "cp_log_verified")
    /\ UNCHANGED <<backend, config, request>>

\* logAccountEvent: the event is inserted when the call succeeds.
LogAccountEvent(r, outcome, event_type, action) ==
    /\ Called(r, "logAccountEvent", event_type, outcome)
    /\ account_events' =
         IF outcome = "ok"
         THEN Append(account_events,
                     [event_type |-> event_type, action |-> action])
         ELSE account_events

\* Log SENSITIVE_ACTION_VERIFIED, action change_password.
CP_LogVerified(r) ==
    /\ pc[r] = "cp_log_verified"
    /\ \E outcome \in Outcomes :
         /\ LogAccountEvent(r, outcome, "SENSITIVE_ACTION_VERIFIED",
                            "change_password")
         /\ IF outcome = "throw"
            THEN Respond(r, UnexpectedError)
            ELSE Goto(r, "cp_update_user")
    /\ UNCHANGED <<password, has_password, gracePeriodExpired, config,
                   request, locals>>

\* The answer to an error of auth.updateUser.
CP_UpdateErrorResponse(dbHasPassword, result) ==
    IF dbHasPassword /\ result = "error:identity_not_found"
    THEN ErrorJson("Cannot add password. Please contact support.", 400)
    ELSE UnexpectedError

\* auth.updateUser({password: newPassword}).
CP_UpdateUser(r) ==
    /\ pc[r] = "cp_update_user"
    /\ \E result \in UpdateUserResults :
         /\ Called(r, "auth.updateUser", locals[r].newPassword, result)
         /\ IF result = "ok"
            THEN /\ password' = locals[r].newPassword
                 /\ Goto(r, "cp_update_flag")
            ELSE /\ UNCHANGED password
                 /\ Respond(r, CP_UpdateErrorResponse(
                                   locals[r].dbHasPassword, result))
    /\ UNCHANGED <<has_password, gracePeriodExpired, account_events, config,
                   request, locals>>

\* Mutant: the flag is cleared instead of set.
CP_FlagValue_Cleared == FALSE

\* The value written to users.has_password after the update.
CP_FlagValue == TRUE

\* Mutant: a failed flag update is tried again.
CP_AfterFlagUpdate_Retry(outcome) ==
    IF outcome = "error" THEN "cp_update_flag" ELSE "cp_log_changed"

\* Where the handler goes after the has_password update answered.
CP_AfterFlagUpdate(outcome) == "cp_log_changed"

\* Update the has_password flag; an error answer is logged and ignored, a
\* rejected query reaches the catch of the handler.
CP_UpdateFlag(r) ==
    /\ pc[r] = "cp_update_flag"
    /\ \E outcome \in Outcomes :
         /\ Called(r, "users.update",
                   IF CP_FlagValue THEN "has_password=true"
                   ELSE "has_password=false", outcome)
         /\ has_password' = IF outcome = "ok" THEN CP_FlagValue
                            ELSE has_password
         /\ IF outcome = "throw"
            THEN Respond(r, UnexpectedError)
            ELSE Goto(r, CP_AfterFlagUpdate(outcome))
    /\ UNCHANGED <<password, gracePeriodExpired, account_events, config,
                   request, locals>>

\* Mutant: alertOnChange is not consulted.
CP_AlertEnabled_IgnoresAlertOnChange == AUTH_CONFIG.password.enabled

\* Whether the password alert email is sent.
CP_AlertEnabled ==
    AUTH_CONFIG.password.enabled /\ AUTH_CONFIG.password.alertOnChange

\* Log PASSWORD_CHANGED.
CP_LogChanged(r) ==
    /\ pc[r] = "cp_log_changed"
    /\ \E outcome \in Outcomes :
         /\ LogAccountEvent(r, outcome, "PASSWORD_CHANGED", "")
         /\ IF outcome = "throw"
            THEN Respond(r, UnexpectedError)
            ELSE IF CP_AlertEnabled
            THEN Goto(r, "cp_alert")
            ELSE Respond(r, Json(<<>>, 200))
    /\ UNCHANGED <<password, has_password, gracePeriodExpired, config,
                   request, locals>>

\* sendEmailAlert, then the empty success response.
CP_SendAlert(r) ==
    /\ pc[r] = "cp_alert"
    /\ \E outcome \in {"ok", "throw"} :
         /\ Called(r, "sendEmailAlert", "Your password was changed", outcome)
         /\ IF outcome = "throw"
            THEN Respond(r, UnexpectedError)
            ELSE Respond(r, Json(<<>>, 200))
    /\ UNCHANGED <<backend, config, request, locals>>

ChangePasswordPOST(r) ==
    \/ CP_RateLimit(r)
    \/ CP_GetUser(r)
    \/ CP_ReadUser(r)
    \/ CP_ValidateBody(r)
    \/ CP_SignIn(r)
    \/ CP_GraceCheck(r)
    \/ CP_VerificationMethods(r)
    \/ CP_LogVerified(r)
    \/ CP_UpdateUser(r)
    \/ CP_UpdateFlag(r)
    \/ CP_LogChanged(r)
    \/ CP_SendAlert(r)

\* ----------------------------------------------- social connect POST
\* 1. Rate limiting.
SC_RateLimit(r) ==
    /\ pc[r] = "sc_rate_limit"
    /\ IF ~authRateLimit
       THEN Goto(r, "sc_get_user") /\ UNCHANGED calls
       ELSE \E outcome \in {"success", "limited", "throw"} :
              /\ Called(r, "authRateLimit.limit", "ip", outcome)
              /\ CASE outcome = "success" -> Goto(r, "sc_get_user")
                   [] outcome = "limited" ->
                        Respond(r, ErrorJson(
                            "Too many requests. Please try again later.", 429))
                   [] outcome = "throw" -> Respond(r, UnexpectedError)
    /\ UNCHANGED <<backend, config, request, locals>>

\* 2. Get and validate user.
SC_GetUser(r) ==
    /\ pc[r] = "sc_get_user"
    /\ \E outcome \in {"user", "error", "throw"} :
         /\ Called(r, "getUser", "", outcome)
         /\ CASE outcome = "user" ->
                   /\ Goto(r, "sc_body")
                   /\ Bind(r, [locals[r] EXCEPT !.user = "user1"])
              [] outcome = "error" ->
                   /\ Respond(r, ErrorJson("Unauthorized", 401))
                   /\ UNCHANGED locals
              [] outcome = "throw" ->
                   /\ Respond(r, UnexpectedError)
                   /\ UNCHANGED locals
    /\ UNCHANGED <<backend, config, request>>

\* The status answered when the request carries no device session.
SC_NoDeviceSessionStatus == 401

\* 3. and 4. request.json(), the validation of the body, and the device
\* session id.
SC_ValidateBody(r) ==
    /\ pc[r] = "sc_body"
    /\ LET rawBody == request[r].body
           validation == SafeParse("socialProviderSchema", rawBody)
           deviceSessionId == getDeviceSessionId(request[r])
           loc == [locals[r] EXCEPT !.provider = validation.data.provider]
       IN  IF ~rawBody.parsable
           THEN Respond(r, UnexpectedError) /\ UNCHANGED <<locals, calls>>
           ELSE
             /\ Called(r, "safeParse", "socialProviderSchema",
                       IF validation.success THEN "ok" ELSE "error")
             /\ IF ~validation.success
                THEN Respond(r, ErrorJson(validation.message, 400))
                     /\ UNCHANGED locals
                ELSE IF ~Truthy(deviceSessionId)
                THEN Respond(r, ErrorJson("No device session found",
                                          SC_NoDeviceSessionStatus))
                     /\ Bind(r, loc)
                ELSE Goto(r, "sc_grace")
                     /\ Bind(r, [loc EXCEPT
                                   !.deviceSessionId = deviceSessionId])
    /\ UNCHANGED <<backend, config, request>>

\* Where the handler goes after the grace-period check.
SC_AfterGraceCheck(needsVerification) ==
    IF needsVerification THEN "sc_methods" ELSE "sc_link"

\* 5. Check if verification is needed.
SC_GraceCheck(r) ==
    /\ pc[r] = "sc_grace"
    /\ \E outcome \in {"answer", "throw"} :
         IF outcome = "throw"
         THEN /\ Called(r, "hasGracePeriodExpired",
                        locals[r].deviceSessionId, "throw")
              /\ Respond(r, UnexpectedError)
              /\ UNCHANGED locals
         ELSE /\ Called(r, "hasGracePeriodExpired", locals[r].deviceSessionId,
                        IF gracePeriodExpired THEN "true" ELSE "false")
              /\ Goto(r, SC_AfterGraceCheck(gracePeriodExpired))
              /\ Bind(r, [locals[r] EXCEPT
                            !.gracePeriodExpired = gracePeriodExpired])
    /\ UNCHANGED <<backend, config, request>>

\* methods.map(method => ({type: method, factorId: method})).
SC_BasicMethods(methods) ==
    [i \in 1..Len(methods) |-> [type |-> methods[i], factorId |-> methods[i]]]

\* The response to a request that needs verification.
SC_VerificationResponse(vm) ==
    IF vm.has2FA
    THEN Json([requiresVerification |-> TRUE,
               availableMethods |-> vm.factors], 200)
    ELSE IF Len(SC_BasicMethods(vm.methods)) = 0
    THEN ErrorJson("No verification methods available", 400)
    ELSE Json([requiresVerification |-> TRUE,
               availableMethods |-> SC_BasicMethods(vm.methods)], 200)

\* Get the available verification methods and answer the challenge.
SC_VerificationMethods(r) ==
    /\ pc[r] = "sc_methods"
    /\ \E outcome \in {"answer", "throw"} :
         IF outcome = "throw"
         THEN /\ Called(r, "getUserVerificationMethods", "", "throw")
              /\ Respond(r, UnexpectedError)
              /\ UNCHANGED locals
         ELSE \E vm \in VerificationMethods :
              /\ Called(r, "getUserVerificationMethods", "",
                        IF vm.has2FA THEN "has2FA" ELSE "no2FA")
              /\ Bind(r, [locals[r] EXCEPT !.has2FA = vm.has2FA,
                                           !.factors = vm.factors])
              /\ Respond(r, SC_VerificationResponse(vm))
    /\ UNCHANGED <<backend, config, request>>

\* Mutant: the link error is ignored and the link data answered.
SC_LinkErrorResponse_LinkData ==
    Json([provider |-> "github", url |-> "oauth-url"], 200)

\* The answer to an error of auth.linkIdentity: its message, status 400.
SC_LinkErrorResponse == ErrorJson("linkError.message", 400)

\* 6. auth.linkIdentity({provider, options}); data is the OAuth URL.
SC_LinkIdentity(r) ==
    /\ pc[r] = "sc_link"
    /\ \E outcome \in Outcomes :
         /\ Called(r, "auth.linkIdentity", locals[r].provider, outcome)
         /\ CASE outcome = "ok" -> Goto(r, "sc_log_verified")
              [] outcome = "error" -> Respond(r, SC_LinkErrorResponse)
              [] outcome = "throw" -> Respond(r, UnexpectedError)
    /\ UNCHANGED <<backend, config, request, locals>>

\* 7. Log SENSITIVE_ACTION_VERIFIED, action connect_provider.
SC_LogVerified(r) ==
    /\ pc[r] = "sc_log_verified"
    /\ \E outcome \in Outcomes :
         /\ LogAccountEvent(r, outcome, "SENSITIVE_ACTION_VERIFIED",
                            "connect_provider")
         /\ IF outcome = "throw"
            THEN Respond(r, UnexpectedError)
            ELSE Goto(r, "sc_log_connected")
    /\ UNCHANGED <<password, has_password, gracePeriodExpired, config,
                   request, locals>>

\* Whether the connect alert email is sent.
SC_AlertEnabled ==
    AUTH_CONFIG.socialProviders.enabled
    /\ AUTH_CONFIG.socialProviders.alertOnConnect

\* The OAuth data answered on success.
SC_LinkData(provider) == Json([provider |-> provider, url |-> "oauth-url"], 200)

\* 8. Log SOCIAL_PROVIDER_CONNECTED.
SC_LogConnected(r) ==
    /\ pc[r] = "sc_log_connected"
    /\ \E outcome \in Outcomes :
         /\ LogAccountEvent(r, outcome, "SOCIAL_PROVIDER_CONNECTED", "")
         /\ IF outcome = "throw"
            THEN Respond(r, UnexpectedError)
            ELSE IF SC_AlertEnabled
            THEN Goto(r, "sc_alert")
            ELSE Respond(r, SC_LinkData(locals[r].provider))
    /\ UNCHANGED <<password, has_password, gracePeriodExpired, config,
                   request, locals>>

\* 9. Send the email alert, then answer the OAuth URL.
SC_SendAlert(r) ==
    /\ pc[r] = "sc_alert"
    /\ \E outcome \in {"ok", "throw"} :
         /\ Called(r, "sendEmailAlert", "account connected", outcome)
         /\ IF outcome = "throw"
            THEN Respond(r, UnexpectedError)
            ELSE Respond(r, SC_LinkData(locals[r].provider))
    /\ UNCHANGED <<backend, config, request, locals>>

SocialConnectPOST(r) ==
    \/ SC_RateLimit(r)
    \/ SC_GetUser(r)
    \/ SC_ValidateBody(r)
    \/ SC_GraceCheck(r)
    \/ SC_VerificationMethods(r)
    \/ SC_LinkIdentity(r)
    \/ SC_LogVerified(r)
    \/ SC_LogConnected(r)
    \/ SC_SendAlert(r)

\* ------------------------------------------------------------ Spec
Next ==
    \/ \E r \in Requests : Receive(r)
    \/ \E r \in Requests : ChangePasswordPOST(r)
    \/ \E r \in Requests : SocialConnectPOST(r)
    \/ GracePeriodElapses

Spec == Init /\ [][Next]_vars

\* ------------------------------------------------- reading a request
Done(r) == pc[r] = "done"

Indices(r) == 1..Len(calls[r])

\* The request made the call, resp. made it and got this result.
Made(r, fn) == \E i \in Indices(r) : calls[r][i].fn = fn
Answered(r, fn, result) ==
    \E i \in Indices(r) : calls[r][i].fn = fn /\ calls[r][i].result = result

Logged(r, event_type) ==
    \E i \in Indices(r) :
        calls[r][i].fn = "logAccountEvent" /\ calls[r][i].arg = event_type

SensitiveActions == {"auth.updateUser", "auth.linkIdentity"}
SensitiveActionCalled(r) == \E fn \in SensitiveActions : Made(r, fn)

IsError(resp) == "error" \in DOMAIN resp.body
IsTwoFactorChallenge(resp) == "requiresTwoFactor" \in DOMAIN resp.body
IsVerificationChallenge(resp) == "requiresVerification" \in DOMAIN resp.body
IsChallenge(resp) == IsTwoFactorChallenge(resp) \/ IsVerificationChallenge(resp)

\* ------------------------------------------------------------ claims

\* C1: every request that performs the sensitive action (auth.updateUser,
\* auth.linkIdentity) either found the grace period unexpired or passed a
\* verification check (current password, second factor) in that request.
\* Neither handler verifies a second factor itself, so the only verification
\* check a request can pass is the current-password sign-in.
C1_ActionOnlyAfterVerification ==
    \A r \in Requests :
        SensitiveActionCalled(r) =>
            \/ Answered(r, "hasGracePeriodExpired", "false")
            \/ Answered(r, "auth.signInWithPassword", "ok")

\* C2: a request answers a challenge or performs the sensitive action, never
\* both; with the grace period expired and a user with 2FA, change-password
\* answers {requiresTwoFactor, factorId, availableMethods, newPassword}
\* without updateUser, flag update, PASSWORD_CHANGED log or alert email, and
\* connect answers {requiresVerification, availableMethods} without
\* linkIdentity.
C2_ChallengeOrAction ==
    \A r \in Requests :
        /\ ~(IsChallenge(response[r]) /\ SensitiveActionCalled(r))
        /\ (/\ Answered(r, "hasGracePeriodExpired", "true")
            /\ Answered(r, "getUserVerificationMethods", "has2FA"))
           => IF request[r].route = ChangePassword
              THEN /\ DOMAIN response[r].body =
                        {"requiresTwoFactor", "factorId",
                         "availableMethods", "newPassword"}
                   /\ response[r].body.requiresTwoFactor
                   /\ ~Made(r, "auth.updateUser")
                   /\ ~Made(r, "users.update")
                   /\ ~Logged(r, "PASSWORD_CHANGED")
                   /\ ~Made(r, "sendEmailAlert")
              ELSE /\ DOMAIN response[r].body =
                        {"requiresVerification", "availableMethods"}
                   /\ response[r].body.requiresVerification
                   /\ ~Made(r, "auth.linkIdentity")

\* C2 witness: a change-password request of a user with 2FA answered with the
\* challenge after an expired grace period.
C2_Witness ==
    \E r \in Requests :
        /\ request[r].route = ChangePassword
        /\ Answered(r, "hasGracePeriodExpired", "true")
        /\ Answered(r, "getUserVerificationMethods", "has2FA")
        /\ Done(r)
        /\ IsTwoFactorChallenge(response[r])

\* C3: once hasGracePeriodExpired answered false, the request never answers a
\* challenge, never calls getUserVerificationMethods, and goes on to the
\* sensitive action: it is about to call it or has called it.
C3_GracePeriodSkipsVerification ==
    \A r \in Requests :
        Answered(r, "hasGracePeriodExpired", "false") =>
            /\ ~IsChallenge(response[r])
            /\ ~Made(r, "getUserVerificationMethods")
            /\ \/ pc[r] \in {"cp_update_user", "sc_link"}
               \/ SensitiveActionCalled(r)

\* C3 witness: a finished change-password request within the grace period
\* whose updateUser succeeded.
C3_Witness ==
    \E r \in Requests :
        /\ request[r].route = ChangePassword
        /\ Answered(r, "hasGracePeriodExpired", "false")
        /\ Answered(r, "auth.updateUser", "ok")
        /\ Done(r)

\* The step of the request flow a call belongs to: authenticate (1),
\* validate (2), grace-period / 2FA check (3), sensitive action (4),
\* log event (5), alert email (6).
Phase(c) ==
    CASE c.fn = "authRateLimit.limit" -> 0
      [] c.fn \in {"getUser", "users.select"} -> 1
      [] c.fn \in {"safeParse", "auth.signInWithPassword"} -> 2
      [] c.fn \in {"hasGracePeriodExpired", "getUserVerificationMethods"} -> 3
      [] c.fn \in SensitiveActions \cup {"users.update"} -> 4
      [] c.fn = "logAccountEvent" -> 5
      [] c.fn = "sendEmailAlert" -> 6

\* The sensitive action succeeded before call i of the request.
ActionPerformedBefore(r, i) ==
    \E j \in 1..(i - 1) :
        calls[r][j].fn \in SensitiveActions /\ calls[r][j].result = "ok"

\* Call i, a sensitive action, comes after a successful authentication, a
\* successful validation and an answered grace-period check.
ChecksCompletedBefore(r, i) ==
    /\ \E j \in 1..(i - 1) :
          calls[r][j].fn = "getUser" /\ calls[r][j].result = "user"
    /\ \E j \in 1..(i - 1) :
          calls[r][j].fn = "safeParse" /\ calls[r][j].result = "ok"
    /\ \E j \in 1..(i - 1) :
          /\ calls[r][j].fn = "hasGracePeriodExpired"
          /\ calls[r][j].result \in {"true", "false"}

\* C4 as stated: the steps of a request occur in the order authenticate,
\* validate, grace/2FA check, sensitive action, log event, alert email; no
\* account event is logged before the sensitive action was performed, and
\* the sensitive action is never called before the three checks completed.
C4_StepOrder ==
    \A r \in Requests :
        /\ \A i, j \in Indices(r) :
              i < j => Phase(calls[r][i]) <= Phase(calls[r][j])
        /\ \A i \in Indices(r) :
              calls[r][i].fn = "logAccountEvent"
                  => ActionPerformedBefore(r, i)
        /\ \A i \in Indices(r) :
              calls[r][i].fn \in SensitiveActions
                  => ChecksCompletedBefore(r, i)

\* change-password logs SENSITIVE_ACTION_VERIFIED as part of its grace/2FA
\* check, before auth.updateUser.
IsVerifiedLogOfChangePassword(r, c) ==
    /\ request[r].route = ChangePassword
    /\ c.fn = "logAccountEvent"
    /\ c.arg = "SENSITIVE_ACTION_VERIFIED"

AmendedPhase(r, c) ==
    IF IsVerifiedLogOfChangePassword(r, c) THEN 3 ELSE Phase(c)

\* C4 amended: the steps occur in that order, except that change-password
\* logs SENSITIVE_ACTION_VERIFIED after the verification-method lookup and
\* before auth.updateUser; every other account event is logged only after
\* the sensitive action succeeded, and the sensitive action is never called
\* before authentication, validation and the grace-period check completed.
C4_StepOrderAmended ==
    \A r \in Requests :
        /\ \A i, j \in Indices(r) :
              i < j => AmendedPhase(r, calls[r][i]) <= AmendedPhase(r, calls[r][j])
        /\ \A i \in Indices(r) :
              /\ calls[r][i].fn = "logAccountEvent"
              /\ ~IsVerifiedLogOfChangePassword(r, calls[r][i])
              => ActionPerformedBefore(r, i)
        /\ \A i \in Indices(r) :
              IsVerifiedLogOfChangePassword(r, calls[r][i])
                  => /\ ~ActionPerformedBefore(r, i)
                     /\ \E j \in 1..(i - 1) :
                           calls[r][j].fn = "getUserVerificationMethods"
        /\ \A i \in Indices(r) :
              calls[r][i].fn \in SensitiveActions
                  => ChecksCompletedBefore(r, i)

\* C4 witness: a change-password request that logged
\* SENSITIVE_ACTION_VERIFIED, then updated the password, logged
\* PASSWORD_CHANGED and sent the alert email.
C4_Witness ==
    \E r \in Requests :
        /\ Done(r)
        /\ Logged(r, "SENSITIVE_ACTION_VERIFIED")
        /\ Answered(r, "auth.updateUser", "ok")
        /\ Logged(r, "PASSWORD_CHANGED")
        /\ Answered(r, "sendEmailAlert", "ok")

\* C5: in change-password, once auth.updateUser succeeded the response is
\* 200 {} whether or not the has_password update or a logAccountEvent call
\* fails (answers an error or throws).
C5_SideEffectFailuresSwallowed ==
    \A r \in Requests :
        (/\ request[r].route = ChangePassword
         /\ Done(r)
         /\ Answered(r, "auth.updateUser", "ok")
         /\ ~Answered(r, "sendEmailAlert", "throw"))
        => response[r] = Json(<<>>, 200)

\* The last call of the request.
LastCall(r) == calls[r][Len(calls[r])]

\* The request was answered by the validation of its body: request.json()
\* failed on it right after the last successful call, or safeParse did.
RejectedByValidation(r) ==
    /\ Done(r)
    /\ calls[r] # <<>>
    /\ IF request[r].body.parsable
       THEN LastCall(r).fn = "safeParse" /\ LastCall(r).result = "error"
       ELSE /\ LastCall(r).fn = (IF request[r].route = ChangePassword
                                 THEN "users.select" ELSE "getUser")
            /\ LastCall(r).result \in {"ok", "user"}

\* C6: every error response has the status of its category: 401 without an
\* authenticated user, 400 for a validation failure (a missing or unparsable
\* body included), 429 when rate-limited, 500 for a failed upstream call or
\* an exception; and a missing device session gets the same status in both
\* handlers.
C6_StatusByCategory ==
    \A r \in Requests :
        (Done(r) /\ IsError(response[r])) =>
            /\ Answered(r, "getUser", "error") => response[r].status = 401
            /\ RejectedByValidation(r) => response[r].status = 400
            /\ Answered(r, "authRateLimit.limit", "limited")
                  => response[r].status = 429
            /\ (\/ Answered(r, "users.select", "error")
                \/ Answered(r, "auth.updateUser", "error:other")
                \/ Answered(r, "auth.updateUser", "error:identity_not_found")
                \/ Answered(r, "auth.linkIdentity", "error")
                \/ LastCall(r).result = "throw")
                  => response[r].status = 500
            /\ response[r].body = [error |-> "No device session found"]
                  => response[r].status =
                        (IF request[r].route = ChangePassword
                         THEN SC_NoDeviceSessionStatus
                         ELSE CP_NoDeviceSessionStatus)

\* The request read the users row and found has_password with this value.
ReadHasPassword(r, value) ==
    /\ request[r].route = ChangePassword
    /\ Answered(r, "users.select", "ok")
    /\ locals[r].dbHasPassword = value

\* C7: for a user whose has_password is true, auth.updateUser is called only
\* after signInWithPassword with the non-empty currentPassword of the request
\* answered no error; when it answers an error the response is 400 "Current
\* password is incorrect" and nothing is updated or logged.
C7_CurrentPasswordVerified ==
    \A r \in Requests :
        ReadHasPassword(r, TRUE) =>
            /\ \A i \in Indices(r) :
                  calls[r][i].fn = "auth.updateUser" =>
                      /\ Truthy(request[r].body.currentPassword)
                      /\ \E j \in 1..(i - 1) :
                            /\ calls[r][j].fn = "auth.signInWithPassword"
                            /\ calls[r][j].arg = request[r].body.currentPassword
                            /\ calls[r][j].result = "ok"
            /\ Answered(r, "auth.signInWithPassword", "error") =>
                  /\ response[r] = ErrorJson("Current password is incorrect", 400)
                  /\ ~Made(r, "auth.updateUser")
                  /\ ~Made(r, "users.update")
                  /\ ~Made(r, "logAccountEvent")

\* C7 witness: a user with a password changed it after a successful sign-in.
C7_Witness ==
    \E r \in Requests :
        /\ ReadHasPassword(r, TRUE)
        /\ Answered(r, "auth.signInWithPassword", "ok")
        /\ Answered(r, "auth.updateUser", "ok")

\* C8: for a user whose has_password is false the body is validated against
\* addPasswordSchema, signInWithPassword is never called and a missing
\* currentPassword never rejects the request; once updateUser succeeded the
\* handler issues the update has_password = true; no request writes
\* has_password = false or unlinks an identity.
C8_AddPasswordForOAuthUser ==
    \A r \in Requests :
        /\ ReadHasPassword(r, FALSE) =>
              /\ \A i \in Indices(r) :
                    calls[r][i].fn = "safeParse"
                        => calls[r][i].arg = "addPasswordSchema"
              /\ ~Made(r, "auth.signInWithPassword")
              /\ response[r].body # [error |-> "Current password is required"]
              /\ (/\ request[r].body.parsable
                  /\ ValidPassword(request[r].body.newPassword)
                  /\ Made(r, "safeParse"))
                 => Answered(r, "safeParse", "ok")
              /\ Answered(r, "auth.updateUser", "ok") =>
                    \/ pc[r] = "cp_update_flag"
                    \/ \E i \in Indices(r) :
                          /\ calls[r][i].fn = "users.update"
                          /\ calls[r][i].arg = "has_password=true"
        /\ \A i \in Indices(r) :
              /\ calls[r][i].fn = "users.update"
                    => calls[r][i].arg = "has_password=true"
              /\ calls[r][i].fn # "auth.unlinkIdentity"

\* C8 witness: an OAuth user without currentPassword in the body added a
\* password and the flag was set.
C8_Witness ==
    \E r \in Requests :
        /\ ReadHasPassword(r, FALSE)
        /\ request[r].body.currentPassword = Undefined
        /\ Answered(r, "auth.updateUser", "ok")
        /\ Answered(r, "users.update", "ok")
        /\ has_password

\* C9: no retries: a request makes each external call at most once (for
\* logAccountEvent: once per event type), also after the call failed.
C9_NoRetries ==
    \A r \in Requests :
        \A i, j \in Indices(r) :
            (/\ i < j
             /\ calls[r][i].fn = calls[r][j].fn)
            => /\ calls[r][i].fn = "logAccountEvent"
               /\ calls[r][i].arg # calls[r][j].arg

\* C9 witness: a request that went on to its end after the flag update
\* answered an error.
C9_Witness ==
    \E r \in Requests :
        /\ Done(r)
        /\ Answered(r, "users.update", "error")
        /\ Logged(r, "SENSITIVE_ACTION_VERIFIED")
        /\ Logged(r, "PASSWORD_CHANGED")
        /\ response[r] = Json(<<>>, 200)

\* C10: every change-password response is 200 {}, or {error} with status
\* 400, 401, 429 or 500, or the challenge {requiresTwoFactor: true, factorId,
\* availableMethods, newPassword}; 200 {} only when auth.updateUser
\* succeeded; the challenge's factorId is that of the first available method
\* and its newPassword that of the request body.
C10_ChangePasswordResponses ==
    \A r \in Requests :
        (request[r].route = ChangePassword /\ Done(r)) =>
            LET body == response[r].body
                status == response[r].status
            IN  /\ \/ body = <<>> /\ status = 200
                   \/ DOMAIN body = {"error"}
                      /\ status \in {400, 401, 429, 500}
                   \/ /\ DOMAIN body = {"requiresTwoFactor", "factorId",
                                        "availableMethods", "newPassword"}
                      /\ body.requiresTwoFactor = TRUE
                      /\ status = 200
                /\ body = <<>> => Answered(r, "auth.updateUser", "ok")
                /\ IsTwoFactorChallenge(response[r]) =>
                      /\ Len(body.availableMethods) > 0
                      /\ body.factorId = body.availableMethods[1].factorId
                      /\ body.newPassword = request[r].body.newPassword

\* C10 witness: a challenge listing two different factors.
C10_Witness ==
    \E r \in Requests :
        /\ Done(r)
        /\ IsTwoFactorChallenge(response[r])
        /\ Len(response[r].body.availableMethods) = 2
        /\ response[r].body.availableMethods[1]
              # response[r].body.availableMethods[2]

ErrorStatuses == {400, 401, 429, 500}

\* C11: every social-connect response is 200 with the link data {url}, or
\* the challenge {requiresVerification: true, availableMethods}, or {error}
\* with an error status; the link data is answered only when
\* auth.linkIdentity was called and answered no error; when it answers an
\* error the response is an error, neither SENSITIVE_ACTION_VERIFIED nor
\* SOCIAL_PROVIDER_CONNECTED is logged and no alert email is sent.
C11_SocialConnectResponses ==
    \A r \in Requests :
        (request[r].route = SocialConnect /\ Done(r)) =>
            LET body == response[r].body
                status == response[r].status
            IN  /\ \/ "url" \in DOMAIN body /\ status = 200
                   \/ /\ DOMAIN body = {"requiresVerification",
                                        "availableMethods"}
                      /\ body.requiresVerification = TRUE
                      /\ status = 200
                   \/ DOMAIN body = {"error"} /\ status \in ErrorStatuses
                /\ "url" \in DOMAIN body
                      => Answered(r, "auth.linkIdentity", "ok")
                /\ Answered(r, "auth.linkIdentity", "error") =>
                      /\ IsError(response[r])
                      /\ status \in ErrorStatuses
                      /\ ~Made(r, "logAccountEvent")
                      /\ ~Made(r, "sendEmailAlert")

\* C11 witness: a connect request whose linkIdentity answered an error.
C11_Witness ==
    \E r \in Requests :
        /\ request[r].route = SocialConnect
        /\ Done(r)
        /\ Answered(r, "auth.linkIdentity", "error")
        /\ IsError(response[r])

\* C13: when an OAuth user (has_password false) adds a password and
\* auth.updateUser fails with identity_not_found, the response is
\* 400 "Cannot add password. Please contact support." and not the 500.
C13_IdentityNotFoundForOAuthUser ==
    \A r \in Requests :
        (/\ ReadHasPassword(r, FALSE)
         /\ Answered(r, "auth.updateUser", "error:identity_not_found"))
        => response[r] =
              ErrorJson("Cannot add password. Please contact support.", 400)

\* The request found the grace period expired and a user without 2FA.
ExpiredWithout2FA(r) ==
    /\ Answered(r, "hasGracePeriodExpired", "true")
    /\ Answered(r, "getUserVerificationMethods", "no2FA")

\* C14: with the grace period expired and no 2FA, connect never calls
\* linkIdentity and answers {requiresVerification: true, availableMethods}
\* built from the basic methods ({type: m, factorId: m}), or 400 "No
\* verification methods available" when there are none; change-password
\* answers no challenge, logs SENSITIVE_ACTION_VERIFIED with action
\* "change_password" and then calls auth.updateUser; every challenge of
\* either handler carries a non-empty availableMethods list.
C14_GateWithout2FA ==
    \A r \in Requests :
        /\ (request[r].route = SocialConnect /\ ExpiredWithout2FA(r)) =>
              /\ ~Made(r, "auth.linkIdentity")
              /\ Done(r)
              /\ \/ response[r] =
                       ErrorJson("No verification methods available", 400)
                 \/ /\ DOMAIN response[r].body =
                          {"requiresVerification", "availableMethods"}
                    /\ response[r].status = 200
                    /\ \A i \in DOMAIN response[r].body.availableMethods :
                          LET m == response[r].body.availableMethods[i]
                          IN  m.type \in BasicMethods /\ m.factorId = m.type
        /\ (request[r].route = ChangePassword /\ ExpiredWithout2FA(r)) =>
              /\ ~IsChallenge(response[r])
              /\ \/ pc[r] = "cp_log_verified"
                 \/ /\ Logged(r, "SENSITIVE_ACTION_VERIFIED")
                    /\ \/ pc[r] = "cp_update_user"
                       \/ Made(r, "auth.updateUser")
              /\ \A i \in DOMAIN account_events :
                    account_events[i].event_type = "SENSITIVE_ACTION_VERIFIED"
                        => account_events[i].action = "change_password"
        /\ IsChallenge(response[r])
              => Len(response[r].body.availableMethods) > 0

\* The event that records the outcome of the route's sensitive action.
OutcomeEvent(route) ==
    IF route = ChangePassword THEN "PASSWORD_CHANGED"
    ELSE "SOCIAL_PROVIDER_CONNECTED"

\* AUTH_CONFIG.emailAlerts of the route: both flags enabled.
AlertFlagsEnabled(route) ==
    IF route = ChangePassword
    THEN AUTH_CONFIG.password.enabled /\ AUTH_CONFIG.password.alertOnChange
    ELSE AUTH_CONFIG.socialProviders.enabled
         /\ AUTH_CONFIG.socialProviders.alertOnConnect

\* The outcome event is logged at most once and only after the sensitive
\* action succeeded; the alert email is sent only after the logging call for
\* that event and only with both flags enabled.
OutcomeEventsAndAlerts(r) ==
    /\ \A i, j \in Indices(r) :
          (/\ calls[r][i].fn = "logAccountEvent"
           /\ calls[r][i].arg = OutcomeEvent(request[r].route)
           /\ calls[r][j].fn = "logAccountEvent"
           /\ calls[r][j].arg = OutcomeEvent(request[r].route))
          => i = j /\ ActionPerformedBefore(r, i)
    /\ \A i \in Indices(r) :
          calls[r][i].fn = "sendEmailAlert" =>
              /\ AlertFlagsEnabled(request[r].route)
              /\ \E j \in 1..(i - 1) :
                    /\ calls[r][j].fn = "logAccountEvent"
                    /\ calls[r][j].arg = OutcomeEvent(request[r].route)
                    /\ calls[r][j].result # "throw"

\* C15 as stated: PASSWORD_CHANGED (SOCIAL_PROVIDER_CONNECTED) is logged at
\* most once and only after updateUser (linkIdentity) succeeded, the alert
\* email is sent only after that event was logged and with both flags
\* enabled, and no account event of any type is logged in a request that
\* ends with an error response or a challenge.
C15_AuditEventsMatchOutcomes ==
    \A r \in Requests :
        /\ OutcomeEventsAndAlerts(r)
        /\ (Done(r) /\ (IsError(response[r]) \/ IsChallenge(response[r])))
              => ~Answered(r, "logAccountEvent", "ok")

\* C15 amended: the same for the outcome event and the alert email; no
\* account event is logged in a request that ends with a challenge; a request
\* that ends with an error response has made a logging call only when the
\* error answers a failure of auth.updateUser after change-password logged
\* SENSITIVE_ACTION_VERIFIED, or an exception thrown by the has_password
\* update, logAccountEvent or sendEmailAlert.
C15_AuditEventsAmended ==
    \A r \in Requests :
        /\ OutcomeEventsAndAlerts(r)
        /\ (Done(r) /\ IsChallenge(response[r]))
              => ~Made(r, "logAccountEvent")
        /\ (Done(r) /\ IsError(response[r]) /\ Made(r, "logAccountEvent")) =>
              \/ /\ LastCall(r).fn = "auth.updateUser"
                 /\ LastCall(r).result # "ok"
                 /\ request[r].route = ChangePassword
                 /\ Logged(r, "SENSITIVE_ACTION_VERIFIED")
              \/ /\ LastCall(r).fn \in
                       {"users.update", "logAccountEvent", "sendEmailAlert"}
                 /\ LastCall(r).result = "throw"

\* C15 witness: change-password logged SENSITIVE_ACTION_VERIFIED, the event
\* was inserted, and auth.updateUser then failed.
C15_Witness ==
    \E r \in Requests :
        /\ Done(r)
        /\ IsError(response[r])
        /\ Answered(r, "logAccountEvent", "ok")
        /\ Answered(r, "auth.updateUser", "error:other")
        /\ Len(account_events) = 1
        /\ account_events[1].event_type = "SENSITIVE_ACTION_VERIFIED"

MutatingCalls ==
    {"auth.updateUser", "auth.linkIdentity", "users.update",
     "logAccountEvent", "sendEmailAlert"}

NoMutatingCall(r) == \A i \in Indices(r) : calls[r][i].fn \notin MutatingCalls

\* The body of the request does not pass the validation of its route.
InvalidPayload(r) ==
    \/ ~request[r].body.parsable
    \/ /\ request[r].route = ChangePassword
       /\ ~ValidPassword(request[r].body.newPassword)
    \/ /\ request[r].route = SocialConnect
       /\ request[r].body.provider \notin Providers

\* C16: a request that is rate-limited, unauthenticated, fails payload
\* validation or has no device session makes no mutating call (updateUser,
\* linkIdentity, has_password update, logAccountEvent, sendEmailAlert) and
\* leaves the event log as it was; a rate-limited request returns before
\* getUser or any other backend call.
C16_RejectedRequestsHaveNoEffect ==
    \A r \in Requests :
        /\ (/\ request[r] # NoRequest
            /\ \/ Answered(r, "authRateLimit.limit", "limited")
               \/ Answered(r, "getUser", "error")
               \/ InvalidPayload(r)
               \/ request[r].deviceSessionId = Undefined)
           => NoMutatingCall(r) /\ account_events = <<>>
        /\ Answered(r, "authRateLimit.limit", "limited")
           => /\ Len(calls[r]) = 1
              /\ response[r].status = 429
              /\ Done(r)

\* C16 witness: a change-password request with the right current password
\* and no device session, rejected after the sign-in.
C16_Witness ==
    \E r \in Requests :
        /\ Done(r)
        /\ request[r].deviceSessionId = Undefined
        /\ Answered(r, "auth.signInWithPassword", "ok")
        /\ response[r].body = [error |-> "No device session found"]

\* ------------------------------------------- two concurrent requests
\* Two invocations of POST run at once for the same user, who has a
\* password; their awaited calls interleave. The limiter is not configured
\* and both email alerts are on.
InitConc ==
    /\ password \in Passwords
    /\ has_password = TRUE
    /\ gracePeriodExpired = FALSE
    /\ account_events = <<>>
    /\ authRateLimit = FALSE
    /\ AUTH_CONFIG = [password |-> [enabled |-> TRUE, alertOnChange |-> TRUE],
                      socialProviders |->
                          [enabled |-> TRUE, alertOnConnect |-> TRUE]]
    /\ pc = [r \in Requests |-> "idle"]
    /\ request = [r \in Requests |-> NoRequest]
    /\ locals = [r \in Requests |-> NoLocals]
    /\ calls = [r \in Requests |-> <<>>]
    /\ response = [r \in Requests |-> NoResponse]

\* The requests that pass validation and carry a device session.
WellFormedRequests ==
    { req \in RequestsTo(ChangePassword) \cup RequestsTo(SocialConnect) :
        /\ req.deviceSessionId # Undefined
        /\ req.body.parsable
        /\ req.route = ChangePassword =>
              /\ req.body.currentPassword \in Passwords
              /\ req.body.newPassword \in Passwords
        /\ req.route = SocialConnect => req.body.provider \in Providers }

\* A well-formed request arrives.
ReceiveConc(r) ==
    /\ pc[r] = "idle"
    /\ \E req \in WellFormedRequests :
         /\ request' = [request EXCEPT ![r] = req]
         /\ pc' = [pc EXCEPT ![r] =
                     IF req.route = ChangePassword THEN "cp_rate_limit"
                     ELSE "sc_rate_limit"]
    /\ UNCHANGED <<backend, config, locals, calls, response>>

NextConc ==
    \/ \E r \in Requests : ReceiveConc(r)
    \/ \E r \in Requests : ChangePasswordPOST(r)
    \/ \E r \in Requests : SocialConnectPOST(r)
    \/ GracePeriodElapses

SpecConc == InitConc /\ [][NextConc]_vars

\* Request r applies its sensitive action in this step.
UpdateUserApplied(r) == pc[r] = "cp_update_user" /\ pc'[r] = "cp_update_flag"

LinkIdentityApplied(r) == pc[r] = "sc_link" /\ pc'[r] = "sc_log_verified"

\* C17: check and action are atomic with respect to other requests:
\* auth.updateUser of a request of a has_password user is applied only while
\* the currentPassword it supplied is still the account's password, and the
\* sensitive action of either handler is applied only while the grace period
\* its check found unexpired is still unexpired.
C17_CheckAndActionAtomic ==
    [][\A r \in Requests :
          /\ UpdateUserApplied(r) =>
                /\ locals[r].dbHasPassword =>
                      locals[r].currentPassword = password
                /\ ~locals[r].gracePeriodExpired => ~gracePeriodExpired
          /\ LinkIdentityApplied(r) =>
                (~locals[r].gracePeriodExpired => ~gracePeriodExpired)]_vars

====
